---- MODULE Spec2Model ----
(***************************************************************************)
(* A model of src/src/extension.ts, the "NuGet Package Upgrade" command:   *)
(*   - extractJsonPayload   (pure, on strings modelled as token sequences) *)
(*   - parseOutdatedPackages (pure, on the parsed JSON document)           *)
(*   - the picker items built from the candidates                          *)
(*   - the command callback registered by activate, with the child         *)
(*     processes' events of runCommand / runCommandCapture                 *)
(*                                                                         *)
(* Three specifications share the module:                                  *)
(*   Spec         one run of the command                                   *)
(*   SpecExtract  extractJsonPayload applied to every bounded string       *)
(*   SpecNorm     parseOutdatedPackages' aggregation and the picker items  *)
(*                applied to every bounded document                        *)
(***************************************************************************)
EXTENDS Integers, Sequences, FiniteSets, TLC

VARIABLES
    \* ---- one run of the command (Spec) ----
    pc,             \* where the command callback is suspended
    folder,         \* whether workspaceFolders?.[0] exists (set by Run)
    channel,        \* whether the output channel was created
    log,            \* what was appended to the output channel, in order
    notifications,  \* showErrorMessage / showInformationMessage calls, in order
    prompts,        \* number of showQuickPick calls
    calls,          \* spawn calls issued, in order: [name, args]
    child,          \* the child process whose promise is pending
    zombies,        \* children that emitted 'error' and may still emit 'close'
    arrived,        \* the chunks delivered by the streams of the runCommand calls
    events,         \* the 'error' and 'close' events the children emitted, in order
    stdout,         \* runCommandCapture's local stdout
    stderr,         \* runCommandCapture's local stderr
    results,        \* the value each call's promise resolved with
    payload,        \* jsonPayload
    candidates,     \* outdatedPackages
    items,          \* the picker items
    picked,         \* what showQuickPick returned: "no", "cancelled", "array"
    selections,     \* the selected items when picked = "array"
    \* ---- the pure functions (SpecExtract, SpecNorm) ----
    text,           \* input of extractJsonPayload
    extracted,      \* results of successive applications of extractJsonPayload
    data,           \* the parsed document handed to the aggregation
    stage           \* "run", "extract", or "input" then "normalized"

runVars == <<pc, folder, channel, log, notifications, prompts, calls, child,
             zombies, arrived, events, stdout, stderr, results, payload, picked, selections>>
vars == <<pc, folder, channel, log, notifications, prompts, calls, child,
          zombies, arrived, events, stdout, stderr, results, payload, candidates, items,
          picked, selections, text, extracted, data, stage>>

(***************************************************************************)
(* Bounds of the model.                                                    *)
(***************************************************************************)
\* longest input string of extractJsonPayload in SpecExtract
MaxLen == 4
\* most leaves (package entries, empty frameworks, empty projects) of a document
MaxLeaves == 2
\* most tokens captured from the outdated-check call (stdout plus stderr)
MaxCapture == 4
\* most chunks echoed to the log over one run
MaxEcho == 2

(***************************************************************************)
(* Strings that the code scans character by character are sequences of     *)
(* one-character strings.  A member token ("m0", "m1", "m2") stands for    *)
(* the text between the outermost braces of a JSON object.                 *)
(***************************************************************************)
Chars == {"{", "}", "x", " "}
MemberTokens == {"m0", "m1", "m2"}

RECURSIVE SeqsUpTo(_, _)
SeqsUpTo(S, n) ==
    IF n = 0 THEN {<<>>}
    ELSE LET shorter == SeqsUpTo(S, n - 1)
         IN  shorter \cup {Append(s, c) : s \in {t \in shorter : Len(t) = n - 1}, c \in S}

(***************************************************************************)
(* String.prototype.indexOf / lastIndexOf with a one-character needle,     *)
(* 0-based, -1 encoded as the JS result plus one: 0 means "not found".     *)
(***************************************************************************)
RECURSIVE IndexFrom(_, _, _)
IndexFrom(s, c, i) ==
    IF i > Len(s) THEN 0
    ELSE IF s[i] = c THEN i
    ELSE IndexFrom(s, c, i + 1)

\* 1-based position of the first c in s, 0 when absent (JS: indexOf(c) + 1)
indexOf(s, c) == IndexFrom(s, c, 1)

RECURSIVE LastIndexFrom(_, _, _)
LastIndexFrom(s, c, i) ==
    IF i = 0 THEN 0
    ELSE IF s[i] = c THEN i
    ELSE LastIndexFrom(s, c, i - 1)

\* 1-based position of the last c in s, 0 when absent (JS: lastIndexOf(c) + 1)
lastIndexOf(s, c) == LastIndexFrom(s, c, Len(s))

\* text.slice(a - 1, b) for 1-based inclusive a..b
slice(s, a, b) == SubSeq(s, a, b)

\* a plausible slip: slice(firstBrace, lastBrace), dropping the closing brace
extractJsonPayload_exclusive(s) ==
    LET firstBrace == indexOf(s, "{")
        lastBrace == lastIndexOf(s, "}")
    IN  IF firstBrace = 0 \/ lastBrace = 0 \/ lastBrace <= firstBrace
        THEN s
        ELSE slice(s, firstBrace, lastBrace - 1)

\* a plausible slip: cut at the first closing brace instead of the last
extractJsonPayload_firstClose(s) ==
    LET firstBrace == indexOf(s, "{")
        lastBrace == indexOf(s, "}")
    IN  IF firstBrace = 0 \/ lastBrace = 0 \/ lastBrace <= firstBrace
        THEN s
        ELSE slice(s, firstBrace, lastBrace)

extractJsonPayload(s) ==
    LET firstBrace == indexOf(s, "{")
        lastBrace == lastIndexOf(s, "}")
    IN  IF firstBrace = 0 \/ lastBrace = 0 \/ lastBrace <= firstBrace
        THEN s
        ELSE slice(s, firstBrace, lastBrace)

(***************************************************************************)
(* JSON values as JSON.parse returns them.  A missing field, undefined and *)
(* null are one value: the code reads fields only through ?. and tests     *)
(* them only with ??, Array.isArray, typeof and truthiness, which do not   *)
(* tell them apart.                                                        *)
(***************************************************************************)
Null == [t |-> "null"]
Str(s) == [t |-> "str", s |-> s]
Num(n) == [t |-> "num", n |-> n]
Arr(a) == [t |-> "arr", a |-> a]
Obj(o) == [t |-> "obj", o |-> o]

\* v?.f
Get(v, f) == IF v.t = "obj" /\ f \in DOMAIN v.o THEN v.o[f] ELSE Null

\* a ?? b
Coalesce(a, b) == IF a.t = "null" THEN b ELSE a

\* Array.isArray(v) ? v : []
ArrayOrEmpty(v) == IF v.t = "arr" THEN v.a ELSE <<>>

\* typeof v === "string"
IsString(v) == v.t = "str"

\* JS truthiness
Truthy(v) ==
    CASE v.t = "null" -> FALSE
      [] v.t = "str" -> v.s # ""
      [] v.t = "num" -> v.n # 0
      [] OTHER -> TRUE

DigitString(n) ==
    CASE n = 0 -> "0" [] n = 1 -> "1" [] n = 2 -> "2" [] n = 3 -> "3"
      [] n = 4 -> "4" [] n = 5 -> "5" [] n = 6 -> "6" [] n = 7 -> "7"
      [] n = 8 -> "8" [] OTHER -> "9"

\* `${v}` for the values the bounded documents put in a name
TemplateString(v) ==
    CASE v.t = "str" -> v.s
      [] v.t = "num" -> DigitString(v.n)
      [] v.t = "null" -> "null"
      [] v.t = "obj" -> "[object Object]"
      [] OTHER -> ""

(***************************************************************************)
(* Set<string> and Map<string, OutdatedPackage> keep insertion order: both *)
(* are sequences without repetition.                                       *)
(***************************************************************************)
Range(s) == {s[i] : i \in 1..Len(s)}

\* Set.prototype.add
SetAdd(s, x) == IF x \in Range(s) THEN s ELSE Append(s, x)

\* index of the entry with key id in the map, 0 when absent (Map.get)
RECURSIVE MapIndexFrom(_, _, _)
MapIndexFrom(map, id, i) ==
    IF i > Len(map) THEN 0
    ELSE IF map[i].id = id THEN i
    ELSE MapIndexFrom(map, id, i + 1)

\* a plausible slip: the entry is created without looking the id up
MapIndex_never(map, id) == 0

MapIndex(map, id) == MapIndexFrom(map, id, 1)

NewEntry(id) ==
    [id |-> id, resolvedVersions |-> <<>>, latestVersions |-> <<>>, contexts |-> <<>>]

\* `${projectName} (${frameworkName})`
ContextOf(projectName, frameworkName) ==
    TemplateString(projectName) \o " (" \o TemplateString(frameworkName) \o ")"

\* pkg?.id ?? pkg?.name
PackageId(pkg) == Coalesce(Get(pkg, "id"), Get(pkg, "name"))

\* !(!id || typeof id !== "string")
UsableId(id) == Truthy(id) /\ IsString(id)

\* a plausible slip: the latest version is added to the resolved set
UpdateEntry_latestIntoResolved(entry, pkg, context) ==
    LET resolved == IF IsString(Get(pkg, "resolvedVersion"))
                    THEN Get(pkg, "resolvedVersion") ELSE Null
        latest == IF IsString(Get(pkg, "latestVersion"))
                  THEN Get(pkg, "latestVersion") ELSE Null
        withResolved == IF Truthy(resolved)
                        THEN SetAdd(entry.resolvedVersions, resolved.s)
                        ELSE entry.resolvedVersions
    IN  [entry EXCEPT
            !.resolvedVersions = IF Truthy(latest) THEN SetAdd(withResolved, latest.s)
                                 ELSE withResolved,
            !.contexts = SetAdd(@, context)]

\* a plausible slip: the context is recorded only when the entry is created
UpdateEntry_contextOnce(entry, pkg, context) ==
    LET resolved == IF IsString(Get(pkg, "resolvedVersion"))
                    THEN Get(pkg, "resolvedVersion") ELSE Null
        latest == IF IsString(Get(pkg, "latestVersion"))
                  THEN Get(pkg, "latestVersion") ELSE Null
    IN  [entry EXCEPT
            !.resolvedVersions = IF Truthy(resolved) THEN SetAdd(@, resolved.s) ELSE @,
            !.latestVersions = IF Truthy(latest) THEN SetAdd(@, latest.s) ELSE @,
            !.contexts = IF @ = <<>> THEN <<context>> ELSE @]

\* the three adds of the loop body on the entry found or created
UpdateEntry(entry, pkg, context) ==
    LET resolved == IF IsString(Get(pkg, "resolvedVersion"))
                    THEN Get(pkg, "resolvedVersion") ELSE Null
        latest == IF IsString(Get(pkg, "latestVersion"))
                  THEN Get(pkg, "latestVersion") ELSE Null
    IN  [entry EXCEPT
            !.resolvedVersions = IF Truthy(resolved) THEN SetAdd(@, resolved.s) ELSE @,
            !.latestVersions = IF Truthy(latest) THEN SetAdd(@, latest.s) ELSE @,
            !.contexts = SetAdd(@, context)]

\* the body of `for (const pkg of topLevel)`
VisitPackage(map, pkg, projectName, frameworkName) ==
    LET id == PackageId(pkg)
    IN  IF ~UsableId(id) THEN map
        ELSE LET context == ContextOf(projectName, frameworkName)
                 at == MapIndex(map, id.s)
                 withEntry == IF at = 0 THEN Append(map, NewEntry(id.s)) ELSE map
                 k == IF at = 0 THEN Len(withEntry) ELSE at
             IN  [withEntry EXCEPT ![k] = UpdateEntry(@, pkg, context)]

RECURSIVE VisitPackages(_, _, _, _, _)
VisitPackages(map, topLevel, i, projectName, frameworkName) ==
    IF i > Len(topLevel) THEN map
    ELSE VisitPackages(VisitPackage(map, topLevel[i], projectName, frameworkName),
                       topLevel, i + 1, projectName, frameworkName)

\* the body of `for (const framework of frameworks)`
VisitFramework(map, framework, projectName) ==
    LET frameworkName == Coalesce(Get(framework, "name"), Str("unknown"))
        topLevel == ArrayOrEmpty(Get(framework, "topLevelPackages"))
    IN  VisitPackages(map, topLevel, 1, projectName, frameworkName)

RECURSIVE VisitFrameworks(_, _, _, _)
VisitFrameworks(map, frameworks, i, projectName) ==
    IF i > Len(frameworks) THEN map
    ELSE VisitFrameworks(VisitFramework(map, frameworks[i], projectName),
                         frameworks, i + 1, projectName)

\* the body of `for (const project of projects)`
VisitProject(map, project) ==
    LET projectName == Coalesce(Get(project, "name"),
                                Coalesce(Get(project, "path"), Str("unknown")))
        frameworks == ArrayOrEmpty(Get(project, "frameworks"))
    IN  VisitFrameworks(map, frameworks, 1, projectName)

RECURSIVE VisitProjects(_, _, _)
VisitProjects(map, projects, i) ==
    IF i > Len(projects) THEN map
    ELSE VisitProjects(VisitProject(map, projects[i]), projects, i + 1)

(***************************************************************************)
(* a.id.localeCompare(b.id) on the ids of the model: the default (root)    *)
(* collation orders letters first and, between strings that differ only in *)
(* case, the lower-case one first: "Bar" < "foo" < "Foo".                  *)
(***************************************************************************)
LocaleRank(id) ==
    CASE id = "Bar" -> 1
      [] id = "foo" -> 2
      [] id = "Foo" -> 3
      [] OTHER -> 4

localeCompare(a, b) ==
    IF LocaleRank(a) < LocaleRank(b) THEN -1
    ELSE IF LocaleRank(a) > LocaleRank(b) THEN 1
    ELSE 0

\* stable insertion of e into the sorted sequence s
RECURSIVE InsertSorted(_, _, _)
InsertSorted(s, e, i) ==
    IF i > Len(s) THEN Append(s, e)
    ELSE IF localeCompare(e.id, s[i].id) < 0
         THEN SubSeq(s, 1, i - 1) \o <<e>> \o SubSeq(s, i, Len(s))
         ELSE InsertSorted(s, e, i + 1)

RECURSIVE SortFrom(_, _, _)
SortFrom(s, i, acc) ==
    IF i > Len(s) THEN acc
    ELSE SortFrom(s, i + 1, InsertSorted(acc, s[i], 1))

\* a plausible slip: the map's values are returned in insertion order
SortById_none(s) == s

\* Array.prototype.sort((a, b) => a.id.localeCompare(b.id)): stable
SortById(s) == SortFrom(s, 1, <<>>)

\* parseOutdatedPackages after JSON.parse: lines 97-140
NormalizeData(d) ==
    SortById(VisitProjects(<<>>, ArrayOrEmpty(Get(d, "projects")), 1))

(***************************************************************************)
(* The picker items: activate, lines 219-231.                              *)
(***************************************************************************)
RECURSIVE JoinFrom(_, _, _)
JoinFrom(s, sep, i) ==
    IF i > Len(s) THEN ""
    ELSE IF i = Len(s) THEN s[i]
    ELSE s[i] \o sep \o JoinFrom(s, sep, i + 1)

\* Array.prototype.join
Join(s, sep) == JoinFrom(s, sep, 1)

\* a plausible slip: the first version of a set stands for the set
PresentItem_firstVersion(pkg) ==
    LET resolved == IF Len(pkg.resolvedVersions) >= 1
                    THEN Str(pkg.resolvedVersions[1]) ELSE Null
        latest == IF Len(pkg.latestVersions) >= 1
                  THEN Str(pkg.latestVersions[1]) ELSE Null
    IN  [label |-> pkg.id,
         description |-> IF Truthy(resolved) /\ Truthy(latest)
                         THEN resolved.s \o " -> " \o latest.s
                         ELSE "multiple versions",
         detail |-> Join(pkg.contexts, "; ")]

PresentItem(pkg) ==
    LET resolved == IF Len(pkg.resolvedVersions) = 1
                    THEN Str(pkg.resolvedVersions[1]) ELSE Null
        latest == IF Len(pkg.latestVersions) = 1
                  THEN Str(pkg.latestVersions[1]) ELSE Null
    IN  [label |-> pkg.id,
         description |-> IF Truthy(resolved) /\ Truthy(latest)
                         THEN resolved.s \o " -> " \o latest.s
                         ELSE "multiple versions",
         detail |-> Join(pkg.contexts, "; ")]

PresentItems(pkgs) == [i \in 1..Len(pkgs) |-> PresentItem(pkgs[i])]


(***************************************************************************)
(* The documents of SpecNorm are built from the heads, names and entries   *)
(* below, up to MaxLeaves leaves.  A leaf is a package entry, a framework  *)
(* without entries or a project without frameworks; malformed shapes (null *)
(* elements, fields that are no array) are leaves too.                     *)
(***************************************************************************)
Pkg(id, name, resolved, latest) ==
    Obj([id |-> id, name |-> name, resolvedVersion |-> resolved, latestVersion |-> latest])

PkgEntries ==
    { Pkg(Str("Foo"), Null, Str("1.0"), Str("3.0")),
      Pkg(Str("Foo"), Null, Str("2.0"), Num(3)),
      Pkg(Str("foo"), Null, Str(""), Str("4.0")),
      Pkg(Null, Str("Bar"), Null, Null),
      Pkg(Str(""), Str("Bar"), Str("1.0"), Str("3.0")) }

FrameworkNames == {Str("net8"), Null, Str("unknown")}

ProjectHeads ==
    { [name |-> Str("A"), path |-> Str("p")],
      [name |-> Null, path |-> Null] }

Framework(name, topLevel) == Obj([name |-> name, topLevelPackages |-> topLevel])

Project(head, frameworks) ==
    Obj([name |-> head.name, path |-> head.path, frameworks |-> frameworks])

\* a framework appended to a document: with its first entry, empty, or malformed
NewFrameworks ==
    {Framework(nm, Arr(<<pkg>>)) : nm \in FrameworkNames, pkg \in PkgEntries}
        \cup {Framework(Str("net8"), Arr(<<>>)), Framework(Str("net8"), Null)}

\* a project appended to a document: a head with no frameworks yet, or malformed
NewProjects ==
    {Project(h, Arr(<<>>)) : h \in ProjectHeads}
        \cup {Null, Project([name |-> Str("A"), path |-> Null], Null)}

AtLeastOne(n) == IF n = 0 THEN 1 ELSE n

LeavesOfFramework(fw) == AtLeastOne(Len(ArrayOrEmpty(Get(fw, "topLevelPackages"))))

RECURSIVE LeavesOfFrameworks(_, _)
LeavesOfFrameworks(fl, i) ==
    IF i > Len(fl) THEN 0 ELSE LeavesOfFramework(fl[i]) + LeavesOfFrameworks(fl, i + 1)

LeavesOfProject(p) ==
    AtLeastOne(LeavesOfFrameworks(ArrayOrEmpty(Get(p, "frameworks")), 1))

RECURSIVE LeavesOfProjects(_, _)
LeavesOfProjects(pl, i) ==
    IF i > Len(pl) THEN 0 ELSE LeavesOfProject(pl[i]) + LeavesOfProjects(pl, i + 1)

Leaves(d) == LeavesOfProjects(ArrayOrEmpty(Get(d, "projects")), 1)


(***************************************************************************)
(* JSON.parse on the token strings of the model.  White space between the  *)
(* tokens is insignificant; an object is "{" "}" or "{" member-text "}";   *)
(* anything else is a SyntaxError.  The member texts stand for:            *)
(*   m0  a project (path only) with one framework and no package entry     *)
(*   m1  a project (path only), one framework, one entry: one candidate    *)
(*   m2  a project with two frameworks and three entries: two candidates,  *)
(*       one of them with two resolved versions                            *)
(***************************************************************************)
MemberDoc(m) ==
    CASE m = "m0" ->
           Obj([projects |-> Arr(<<
               Project([name |-> Null, path |-> Str("B")],
                       Arr(<<Framework(Str("net8"), Arr(<<>>))>>))>>)])
      [] m = "m1" ->
           Obj([projects |-> Arr(<<
               Project([name |-> Null, path |-> Str("B")],
                       Arr(<<Framework(Str("net8"),
                                       Arr(<<Pkg(Str("Foo"), Null, Str("1.0"), Str("3.0"))>>))>>))>>)])
      [] OTHER ->
           Obj([projects |-> Arr(<<
               Project([name |-> Str("A"), path |-> Str("p")],
                       Arr(<<Framework(Str("net8"),
                                       Arr(<<Pkg(Str("Foo"), Null, Str("1.0"), Str("3.0")),
                                             Pkg(Null, Str("Bar"), Str("1.0"), Str("3.0"))>>)),
                             Framework(Null,
                                       Arr(<<Pkg(Str("Foo"), Null, Str("2.0"), Str("3.0"))>>))>>))>>)])

EmptyObject == Obj([f \in {} |-> Null])

RECURSIVE WithoutSpaces(_)
WithoutSpaces(s) ==
    IF s = <<>> THEN <<>>
    ELSE IF Head(s) = " " THEN WithoutSpaces(Tail(s))
    ELSE <<Head(s)>> \o WithoutSpaces(Tail(s))

JsonParse(s) ==
    LET t == WithoutSpaces(s)
    IN  IF t = <<"{", "}">>
        THEN [ok |-> TRUE, value |-> EmptyObject, message |-> ""]
        ELSE IF Len(t) = 3 /\ t[1] = "{" /\ t[2] \in MemberTokens /\ t[3] = "}"
        THEN [ok |-> TRUE, value |-> MemberDoc(t[2]), message |-> ""]
        ELSE [ok |-> FALSE, value |-> Null, message |-> "Unexpected token in JSON"]

\* parseOutdatedPackages: the candidates, or the SyntaxError JSON.parse threw
parseOutdatedPackages(jsonText) ==
    LET parsed == JsonParse(extractJsonPayload(jsonText))
    IN  IF parsed.ok
        THEN [ok |-> TRUE, value |-> NormalizeData(parsed.value), message |-> ""]
        ELSE [ok |-> FALSE, value |-> <<>>, message |-> parsed.message]

\* String.prototype.trim
RECURSIVE TrimStart(_)
TrimStart(s) == IF s # <<>> /\ Head(s) = " " THEN TrimStart(Tail(s)) ELSE s

RECURSIVE TrimEnd(_)
TrimEnd(s) ==
    IF s # <<>> /\ s[Len(s)] = " " THEN TrimEnd(SubSeq(s, 1, Len(s) - 1)) ELSE s

Trim(s) == TrimEnd(TrimStart(s))

(***************************************************************************)
(* State of a run before the command is invoked.                           *)
(***************************************************************************)
NoChild == [name |-> "none"]
CallNames == {"list", "outdated", "probe", "install", "upgrade"}
Pending == [settled |-> FALSE, code |-> 0]
Settled(code) == [settled |-> TRUE, code |-> code]
NoResults == [c \in CallNames |-> Pending]

RunInit ==
    /\ pc = "idle"
    /\ folder = FALSE
    /\ channel = FALSE
    /\ log = <<>>
    /\ notifications = <<>>
    /\ prompts = 0
    /\ calls = <<>>
    /\ child = NoChild
    /\ zombies = {}
    /\ arrived = <<>>
    /\ events = <<>>
    /\ stdout = <<>>
    /\ stderr = <<>>
    /\ results = NoResults
    /\ payload = <<>>
    /\ picked = "no"
    /\ selections = <<>>


(***************************************************************************)
(* The run of the command: the callback registered by activate.            *)
(***************************************************************************)
ListArgs == <<"list", "package">>
OutdatedArgs == <<"list", "package", "--outdated", "--format", "json">>
ProbeArgs == <<"outdated", "--version">>
InstallArgs == <<"tool", "install", "--global", "dotnet-outdated-tool">>

RECURSIVE IncludeArgs(_, _)
IncludeArgs(sel, i) ==
    IF i > Len(sel) THEN <<>>
    ELSE <<"--include", sel[i].label>> \o IncludeArgs(sel, i + 1)

\* a plausible slip: the loop runs over the items shown, not the selections
UpgradeArgs_allItems(sel) == <<"outdated", "--upgrade">> \o IncludeArgs(items, 1)

\* lines 249-252
UpgradeArgs(sel) == <<"outdated", "--upgrade">> \o IncludeArgs(sel, 1)

Error(message) == [kind |-> "error", message |-> message]
Info(message) == [kind |-> "info", message |-> message]

\* output.appendLine(`> ${command} ${args.join(" ")}`)
LogCommand(l, args) == Append(l, [kind |-> "command", args |-> args])
\* output.appendLine of a fixed or composed line
LogLine(l, line) == Append(l, [kind |-> "line", line |-> line])
\* output.append / appendLine of text of a stream or of the payload
LogText(l, kind, of, txt) == Append(l, [kind |-> kind, of |-> of, text |-> txt])

\* runCommandCapture is used for the outdated-check call only, with both
\* echo options false (lines 180-186); every other call uses runCommand
Captures(name) == name = "outdated"

\* a plausible slip: the call passes no options, and the default is to echo
EchoStdout_default(name) == TRUE

EchoStdout(name) == name # "outdated"
EchoStderr(name) == name # "outdated"

\* the process 'close' event's code: an exit status, or null
NullCode == -1
CloseCodes == {0, 1, NullCode}
\* the code of the 'close' event of a process that failed to start: a
\* negative errno (ENOENT)
SpawnErrno == -2

\* a plausible slip: the code is passed on as it came
OrOne_raw(code) == code

\* code ?? 1
OrOne(code) == IF code = NullCode THEN 1 ELSE code

\* chunks of the streams: of the captured call, and of the echoed calls
CaptureChunks ==
    {<<" ">>, <<"x">>, <<"{", "}">>, <<"{", "m0", "}">>, <<"{", "m1", "}">>, <<"{", "m2", "}">>}
EchoChunks == {<<"x">>}

Echoed(l) == Cardinality({i \in 1..Len(l) : l[i].kind = "data"})

Goto(p, l, notes, cs, ch) ==
    /\ pc' = p
    /\ log' = l
    /\ notifications' = notes
    /\ calls' = cs
    /\ child' = ch

\* a plausible slip: a failure returns without telling the user
Fail_silent(message, l) == Goto("done", l, notifications, calls, NoChild)

\* show...Message(message); return
Fail(message, l) == Goto("done", l, Append(notifications, Error(message)), calls, NoChild)
Finish(message, l) == Goto("done", l, Append(notifications, Info(message)), calls, NoChild)

\* the head of runCommand / runCommandCapture: the echo line and spawn
Spawn(name, args, l) ==
    Goto(name, LogCommand(l, args), notifications,
         Append(calls, [name |-> name, args |-> args]), [name |-> name])

\* a plausible slip: the inventory call is started and not awaited, the
\* callback going straight on to the outdated-check call
Run_listNotAwaited ==
    /\ pc = "idle"
    /\ \E f \in BOOLEAN :
        /\ folder' = f
        /\ IF ~f
           THEN /\ Goto("done", log,
                        Append(notifications,
                               Error("Open a workspace folder to run NuGet Package Upgrade.")),
                        calls, NoChild)
                /\ UNCHANGED channel
           ELSE /\ channel' = TRUE
                /\ Goto("outdated", LogCommand(LogCommand(log, ListArgs), OutdatedArgs),
                        Append(notifications, Info("Running NuGet package checks...")),
                        <<[name |-> "list", args |-> ListArgs],
                          [name |-> "outdated", args |-> OutdatedArgs]>>,
                        [name |-> "outdated"])
    /\ UNCHANGED <<prompts, zombies, arrived, events, stdout, stderr, results, payload, candidates,
                   items, picked, selections, text, extracted, data, stage>>

\* a plausible slip: the output channel is created before the folder is tested
Run_channelFirst ==
    /\ pc = "idle"
    /\ channel' = TRUE
    /\ \E f \in BOOLEAN :
        /\ folder' = f
        /\ IF ~f
           THEN Goto("done", log,
                     Append(notifications,
                            Error("Open a workspace folder to run NuGet Package Upgrade.")),
                     calls, NoChild)
           ELSE Goto("list", LogCommand(log, ListArgs),
                     Append(notifications, Info("Running NuGet package checks...")),
                     Append(calls, [name |-> "list", args |-> ListArgs]),
                     [name |-> "list"])
    /\ UNCHANGED <<prompts, zombies, arrived, events, stdout, stderr, results, payload, candidates,
                   items, picked, selections, text, extracted, data, stage>>

\* lines 162-174
Run ==
    /\ pc = "idle"
    /\ \E f \in BOOLEAN :
        /\ folder' = f
        /\ IF ~f
           THEN /\ Goto("done", log,
                        Append(notifications,
                               Error("Open a workspace folder to run NuGet Package Upgrade.")),
                        calls, NoChild)
                /\ UNCHANGED channel
           ELSE /\ channel' = TRUE
                /\ Goto("list", LogCommand(log, ListArgs),
                        Append(notifications, Info("Running NuGet package checks...")),
                        Append(calls, [name |-> "list", args |-> ListArgs]),
                        [name |-> "list"])
    /\ UNCHANGED <<prompts, zombies, arrived, events, stdout, stderr, results, payload, candidates,
                   items, picked, selections, text, extracted, data, stage>>

\* a plausible slip: the exit status of the inventory call is not tested
AfterList_ignoresExit(code, l) ==
    /\ Spawn("outdated", OutdatedArgs, l)
    /\ UNCHANGED <<payload, candidates, items, prompts>>

\* lines 175-186
AfterList(code, l) ==
    /\ IF code # 0
       THEN Fail("dotnet list package failed. See output for details.", l)
       ELSE Spawn("outdated", OutdatedArgs, l)
    /\ UNCHANGED <<payload, candidates, items, prompts>>

\* a plausible slip: the empty check is missing
NothingOutdated_never(pkgs) == FALSE

\* outdatedPackages.length === 0
NothingOutdated(pkgs) == Len(pkgs) = 0

\* a plausible slip: the heading is logged without the payload
RawOutput_headingOnly(l, jsonPayload) ==
    LogLine(l, "Failed to parse JSON. Raw output:")

\* lines 208-209: the heading and the raw payload
RawOutput(l, jsonPayload) ==
    LogText(LogLine(l, "Failed to parse JSON. Raw output:"), "raw", "outdated", jsonPayload)

\* a plausible slip: the streams are tested for emptiness, not blankness
SelectPayload_untrimmed(out, err) == IF Len(out) # 0 THEN out ELSE err

\* outdatedResult.stdout.trim().length ? outdatedResult.stdout : outdatedResult.stderr
SelectPayload(out, err) == IF Len(Trim(out)) # 0 THEN out ELSE err

\* lines 187-236
AfterOutdated(code, l) ==
    IF code # 0
    THEN /\ Fail("dotnet list package --outdated --format json failed. Update your .NET SDK or see output for details.", l)
         /\ UNCHANGED <<payload, candidates, items, prompts>>
    ELSE LET jsonPayload == SelectPayload(stdout, stderr)
         IN  /\ payload' = jsonPayload
             /\ IF Trim(jsonPayload) = <<>>
                THEN /\ Fail("No JSON output received from dotnet list package --outdated.", l)
                     /\ UNCHANGED <<candidates, items, prompts>>
                ELSE LET parsed == parseOutdatedPackages(jsonPayload)
                     IN  IF ~parsed.ok
                         THEN /\ Fail("Failed to parse outdated package list: " \o parsed.message,
                                      RawOutput(l, jsonPayload))
                              /\ UNCHANGED <<candidates, items, prompts>>
                         ELSE /\ candidates' = parsed.value
                              /\ IF NothingOutdated(parsed.value)
                                 THEN /\ Finish("No outdated packages found.", l)
                                      /\ UNCHANGED <<items, prompts>>
                                 ELSE /\ items' = PresentItems(parsed.value)
                                      /\ prompts' = prompts + 1
                                      /\ Goto("pick", l, notifications, calls, NoChild)

\* a plausible slip: the install is attempted whatever the probe returned
AfterProbe_alwaysInstall(code, l) ==
    /\ Spawn("install", InstallArgs,
             LogLine(l, "dotnet-outdated-tool not found. Installing globally..."))
    /\ UNCHANGED <<payload, candidates, items, prompts>>

\* ensureDotnetOutdated past the probe (lines 145-155), and lines 244-254
\* when the probe found the tool
AfterProbe(code, l) ==
    /\ IF code = 0
       THEN Spawn("upgrade", UpgradeArgs(selections), l)
       ELSE Spawn("install", InstallArgs,
                  LogLine(l, "dotnet-outdated-tool not found. Installing globally..."))
    /\ UNCHANGED <<payload, candidates, items, prompts>>

\* a plausible slip: a failed install is tried again
AfterInstall_retry(code, l) ==
    /\ IF code # 0
       THEN Spawn("install", InstallArgs, l)
       ELSE Spawn("upgrade", UpgradeArgs(selections), l)
    /\ UNCHANGED <<payload, candidates, items, prompts>>

\* line 157 and lines 244-254
AfterInstall(code, l) ==
    /\ IF code # 0
       THEN Fail("Failed to install dotnet-outdated-tool. See output for details.", l)
       ELSE Spawn("upgrade", UpgradeArgs(selections), l)
    /\ UNCHANGED <<payload, candidates, items, prompts>>

\* lines 255-260
AfterUpgrade(code, l) ==
    /\ IF code # 0
       THEN Fail("dotnet outdated --upgrade failed. See output for details.", l)
       ELSE Finish("NuGet packages updated.", l)
    /\ UNCHANGED <<payload, candidates, items, prompts>>

\* the callback resumes where it awaited the call's promise
Resume(name, code, l) ==
    CASE name = "list" -> AfterList(code, l)
      [] name = "outdated" -> AfterOutdated(code, l)
      [] name = "probe" -> AfterProbe(code, l)
      [] name = "install" -> AfterInstall(code, l)
      [] OTHER -> AfterUpgrade(code, l)

Running == child.name # "none"

\* the 'error' and 'close' events of a child
ErrorEvent(name) == [of |-> name, event |-> "error"]
CloseEvent(name, code) == [of |-> name, event |-> "close", code |-> code]

\* a data event of one of the two streams of a child
Chunk(name, chunk) == [of |-> name, text |-> chunk]

\* child.stdout.on("data", ...)
ChildStdout(chunk) ==
    /\ Running
    /\ IF Captures(child.name)
       THEN /\ chunk \in CaptureChunks
            /\ Len(stdout) + Len(stderr) + Len(chunk) <= MaxCapture
            /\ stdout' = stdout \o chunk
            /\ UNCHANGED arrived
            /\ log' = IF EchoStdout(child.name)
                      THEN LogText(log, "data", child.name, chunk) ELSE log
       ELSE /\ chunk \in EchoChunks
            /\ Echoed(log) < MaxEcho
            /\ log' = LogText(log, "data", child.name, chunk)
            /\ arrived' = Append(arrived, Chunk(child.name, chunk))
            /\ UNCHANGED stdout
    /\ UNCHANGED <<pc, folder, channel, notifications, prompts, calls, child, zombies, events,
                   stderr, results, payload, candidates, items, picked, selections,
                   text, extracted, data, stage>>

\* child.stderr.on("data", ...)
ChildStderr(chunk) ==
    /\ Running
    /\ IF Captures(child.name)
       THEN /\ chunk \in CaptureChunks
            /\ Len(stdout) + Len(stderr) + Len(chunk) <= MaxCapture
            /\ stderr' = stderr \o chunk
            /\ UNCHANGED arrived
            /\ log' = IF EchoStderr(child.name)
                      THEN LogText(log, "data", child.name, chunk) ELSE log
       ELSE /\ chunk \in EchoChunks
            /\ Echoed(log) < MaxEcho
            /\ log' = LogText(log, "data", child.name, chunk)
            /\ arrived' = Append(arrived, Chunk(child.name, chunk))
            /\ UNCHANGED stderr
    /\ UNCHANGED <<pc, folder, channel, notifications, prompts, calls, child, zombies, events,
                   stdout, results, payload, candidates, items, picked, selections,
                   text, extracted, data, stage>>

\* child.on("error", ...) while the promise is pending: the line is logged,
\* the promise resolves with 1 and the callback resumes
ChildError ==
    /\ Running
    /\ events' = Append(events, ErrorEvent(child.name))
    /\ results' = [results EXCEPT ![child.name] = Settled(1)]
    /\ zombies' = zombies \cup {child.name}
    /\ Resume(child.name, 1,
              LogLine(log, "Command failed to start: " \o "spawn error"))
    /\ UNCHANGED <<folder, channel, arrived, stdout, stderr, picked, selections,
                   text, extracted, data, stage>>

\* child.on("close", ...) while the promise is pending
ChildClose(code) ==
    /\ Running
    /\ events' = Append(events, CloseEvent(child.name, code))
    /\ results' = [results EXCEPT ![child.name] = Settled(OrOne(code))]
    /\ Resume(child.name, OrOne(code), log)
    /\ UNCHANGED <<folder, channel, zombies, arrived, stdout, stderr, picked, selections,
                   text, extracted, data, stage>>

\* 'close' of a child whose promise the 'error' event already resolved:
\* resolve is called again and does nothing
LateClose(name) ==
    /\ name \in zombies
    /\ zombies' = zombies \ {name}
    /\ events' = Append(events, CloseEvent(name, SpawnErrno))
    /\ UNCHANGED <<pc, folder, channel, log, notifications, prompts, calls, child,
                   arrived, stdout, stderr, results, payload, candidates, items, picked,
                   selections, text, extracted, data, stage>>

\* what showQuickPick can return: undefined, or any of the items in any order
IsInjective(s) == \A i, j \in 1..Len(s) : s[i] = s[j] => i = j
PickResults(its) == {s \in SeqsUpTo(Range(its), Len(its)) : IsInjective(s)}

\* a plausible slip: only `!selections` is tested
NothingSelected_cancelOnly(p, sel) == p = "cancelled"

\* !selections || selections.length === 0
NothingSelected(p, sel) == p = "cancelled" \/ Len(sel) = 0

\* lines 233-243 and the head of ensureDotnetOutdated (line 144)
Pick(p, sel) ==
    /\ pc = "pick"
    /\ picked' = p
    /\ selections' = sel
    /\ IF NothingSelected(p, sel)
       THEN Finish("No packages selected for upgrade.", log)
       ELSE Spawn("probe", ProbeArgs, log)
    /\ UNCHANGED <<folder, channel, prompts, zombies, arrived, events, stdout, stderr, results, payload,
                   candidates, items, text, extracted, data, stage>>

Init ==
    /\ RunInit
    /\ candidates = <<>>
    /\ items = <<>>
    /\ text = <<>>
    /\ extracted = <<>>
    /\ data = Null
    /\ stage = "run"

Next ==
    \/ Run
    \/ \E chunk \in CaptureChunks \cup EchoChunks : ChildStdout(chunk)
    \/ \E chunk \in CaptureChunks \cup EchoChunks : ChildStderr(chunk)
    \/ ChildError
    \/ \E code \in CloseCodes : ChildClose(code)
    \/ \E name \in CallNames : LateClose(name)
    \/ Pick("cancelled", <<>>)
    \/ \E sel \in PickResults(items) : Pick("array", sel)

Spec == Init /\ [][Next]_vars

\* every started process eventually emits 'close' or 'error', and
\* showQuickPick eventually returns
Completes == ChildError \/ \E code \in CloseCodes : ChildClose(code)
Returns == Pick("cancelled", <<>>) \/ \E sel \in PickResults(items) : Pick("array", sel)

SpecLive == Init /\ [][Next]_vars /\ WF_vars(Completes) /\ WF_vars(Returns)

(***************************************************************************)
(* SpecExtract: extractJsonPayload on every string of at most MaxLen       *)
(* characters, applied to the input and then to its own result.            *)
(***************************************************************************)
InitExtract ==
    /\ RunInit
    /\ candidates = <<>>
    /\ items = <<>>
    /\ text \in SeqsUpTo(Chars, MaxLen)
    /\ extracted = <<>>
    /\ data = Null
    /\ stage = "extract"

Extract ==
    /\ stage = "extract"
    /\ Len(extracted) < 2
    /\ extracted' = Append(extracted,
                           extractJsonPayload(IF extracted = <<>> THEN text
                                              ELSE extracted[Len(extracted)]))
    /\ UNCHANGED <<runVars, candidates, items, text, data, stage>>

NextExtract == Extract

SpecExtract == InitExtract /\ [][NextExtract]_vars

(***************************************************************************)
(* SpecNorm: the aggregation of parseOutdatedPackages and the picker items *)
(* on every bounded document.  The document the tool printed is grown      *)
(* entry by entry at its end, which reaches every bounded document once.   *)
(***************************************************************************)
InitNorm ==
    /\ RunInit
    /\ candidates = <<>>
    /\ items = <<>>
    /\ text = <<>>
    /\ extracted = <<>>
    /\ data \in {Obj([projects |-> Arr(<<>>)]), Obj([projects |-> Null]), Null}
    /\ stage = "input"

\* the last element of an array, the array with it replaced, and an object
\* with one field replaced
LastOf(s) == s[Len(s)]
WithLast(s, x) == [s EXCEPT ![Len(s)] = x]
WithField(v, f, x) == Obj([v.o EXCEPT ![f] = x])

\* the tool's output has one more project; a new project is one leaf
AddProject ==
    /\ stage = "input"
    /\ Get(data, "projects").t = "arr"
    /\ Leaves(data) + 1 <= MaxLeaves
    /\ \E p \in NewProjects :
           data' = WithField(data, "projects", Arr(Append(Get(data, "projects").a, p)))
    /\ UNCHANGED <<runVars, candidates, items, text, extracted, stage>>

\* the last project of the tool's output has one more framework; a new
\* framework is one leaf, and the first framework of a project takes the
\* project's place as a leaf
AddFramework ==
    /\ stage = "input"
    /\ Get(data, "projects").t = "arr"
    /\ Get(data, "projects").a # <<>>
    /\ LET projects == Get(data, "projects").a
           project == LastOf(projects)
       IN  /\ Get(project, "frameworks").t = "arr"
           /\ Leaves(data) + (IF Get(project, "frameworks").a = <<>> THEN 0 ELSE 1)
                  <= MaxLeaves
           /\ \E fw \in NewFrameworks :
                  LET grown == WithField(project, "frameworks",
                                         Arr(Append(Get(project, "frameworks").a, fw)))
                  IN  data' = WithField(data, "projects", Arr(WithLast(projects, grown)))
    /\ UNCHANGED <<runVars, candidates, items, text, extracted, stage>>

\* the last framework of the last project has one more package entry
AddPackage ==
    /\ stage = "input"
    /\ Get(data, "projects").t = "arr"
    /\ Get(data, "projects").a # <<>>
    /\ LET projects == Get(data, "projects").a
           project == LastOf(projects)
       IN  /\ Get(project, "frameworks").t = "arr"
           /\ Get(project, "frameworks").a # <<>>
           /\ LET frameworks == Get(project, "frameworks").a
                  framework == LastOf(frameworks)
              IN  /\ Get(framework, "topLevelPackages").t = "arr"
                  /\ Get(framework, "topLevelPackages").a # <<>>
                  /\ Leaves(data) + 1 <= MaxLeaves
                  /\ \E pkg \in PkgEntries :
                         LET fw == WithField(framework, "topLevelPackages",
                                             Arr(Append(Get(framework, "topLevelPackages").a, pkg)))
                             pr == WithField(project, "frameworks", Arr(WithLast(frameworks, fw)))
                         IN  data' = WithField(data, "projects", Arr(WithLast(projects, pr)))
    /\ UNCHANGED <<runVars, candidates, items, text, extracted, stage>>

\* lines 97-140 and 214-231: the candidates, and the items, which are built
\* only past the empty check of line 214
Normalize ==
    /\ stage = "input"
    /\ LET outdatedPackages == NormalizeData(data)
       IN  /\ candidates' = outdatedPackages
           /\ items' = IF NothingOutdated(outdatedPackages) THEN items
                       ELSE PresentItems(outdatedPackages)
    /\ stage' = "normalized"
    /\ UNCHANGED <<runVars, text, extracted, data>>

NextNorm ==
    \/ AddProject
    \/ AddFramework
    \/ AddPackage
    \/ Normalize

SpecNorm == InitNorm /\ [][NextNorm]_vars

(***************************************************************************)
(* Vocabulary of the properties.                                           *)
(***************************************************************************)
Names(cs) == [i \in 1..Len(cs) |-> cs[i].name]
IsPrefix(a, b) == Len(a) <= Len(b) /\ \A i \in 1..Len(a) : a[i] = b[i]
Issued(name) == \E i \in 1..Len(calls) : calls[i].name = name
Exit0(name) == results[name].settled /\ results[name].code = 0
Failed(name) == results[name].settled /\ results[name].code # 0
LastNotification == notifications[Len(notifications)]
ErrorCount == Cardinality({i \in 1..Len(notifications) : notifications[i].kind = "error"})

\* the outdated-check call exited 0 and its payload parsed
PayloadParsed ==
    /\ Exit0("outdated")
    /\ Trim(payload) # <<>>
    /\ JsonParse(extractJsonPayload(payload)).ok
ParsedDocument == JsonParse(extractJsonPayload(payload)).value

\* the package entries of a document: <<project, framework, entry>> positions
ProjectsIn(d) == ArrayOrEmpty(Get(d, "projects"))
FrameworksIn(d, i) == ArrayOrEmpty(Get(ProjectsIn(d)[i], "frameworks"))
PackagesIn(d, i, j) == ArrayOrEmpty(Get(FrameworksIn(d, i)[j], "topLevelPackages"))
Occurrences(d) ==
    UNION {UNION {{<<i, j, k>> : k \in 1..Len(PackagesIn(d, i, j))} :
                  j \in 1..Len(FrameworksIn(d, i))} :
           i \in 1..Len(ProjectsIn(d))}
EntryAt(d, o) == PackagesIn(d, o[1], o[2])[o[3]]

\* an entry is usable when its id is a non-empty string, or it has no id and
\* its name is a non-empty string
NonEmptyString(v) == v.t = "str" /\ v.s # ""
HasUsableId(e) ==
    \/ NonEmptyString(Get(e, "id"))
    \/ Get(e, "id").t = "null" /\ NonEmptyString(Get(e, "name"))
IdOf(e) == IF Get(e, "id").t = "null" THEN Get(e, "name").s ELSE Get(e, "id").s
UsableOccurrences(d) == {o \in Occurrences(d) : HasUsableId(EntryAt(d, o))}
OccurrencesOf(d, id) == {o \in UsableOccurrences(d) : IdOf(EntryAt(d, o)) = id}

\* "<project> (<framework>)" of an occurrence, with the documented fallbacks
NameOr(v, fallback) ==
    CASE v.t = "str" -> v.s
      [] v.t = "null" -> fallback
      [] OTHER -> TemplateString(v)
ProjectLabel(d, o) ==
    LET p == ProjectsIn(d)[o[1]]
    IN  NameOr(Get(p, "name"), NameOr(Get(p, "path"), "unknown"))
FrameworkLabel(d, o) == NameOr(Get(FrameworksIn(d, o[1])[o[2]], "name"), "unknown")
ContextAt(d, o) == ProjectLabel(d, o) \o " (" \o FrameworkLabel(d, o) \o ")"

SameJson(a, b) ==
    /\ a.t = b.t
    /\ a.t = "str" => a.s = b.s
    /\ a.t = "num" => a.n = b.n
FrameworkNameAt(d, o) == Get(FrameworksIn(d, o[1])[o[2]], "name")

CandidatesOf(id) == {i \in 1..Len(candidates) : candidates[i].id = id}
Candidate(id) == candidates[CHOOSE i \in CandidatesOf(id) : TRUE]

(***************************************************************************)
(* The run.                                                                *)
(***************************************************************************)
\* what must have happened before the probe call is issued
SelectionMade ==
    /\ Exit0("list")
    /\ PayloadParsed
    /\ candidates # <<>>
    /\ picked = "array"
    /\ selections # <<>>

\* C1: the external calls are issued in the order inventory, outdated-check,
\* tool probe, (optional) tool install, constrained upgrade; each is issued
\* only if every earlier step succeeded (the upgrade only after both list
\* calls exited 0, the payload was non-blank and parsed, there was a
\* candidate, an item was selected and the ensure step succeeded); once a
\* step has failed no further call is issued.
C1_CallsOrderedAndGated ==
    /\ \/ IsPrefix(Names(calls), <<"list", "outdated", "probe", "install", "upgrade">>)
       \/ IsPrefix(Names(calls), <<"list", "outdated", "probe", "upgrade">>)
    /\ Issued("outdated") => Exit0("list")
    /\ Issued("probe") => SelectionMade
    /\ Issued("install") => SelectionMade /\ Failed("probe")
    /\ Issued("upgrade") => SelectionMade /\ (Exit0("probe") \/ Exit0("install"))
    /\ \A name \in CallNames \ {"probe"} :
           Failed(name) => /\ calls[Len(calls)].name = name
                           /\ ~Running
                           /\ pc = "done"
    /\ Failed("probe") => IsPrefix(Names(calls), <<"list", "outdated", "probe", "install", "upgrade">>)
                          /\ Issued("install")

C1_Witness ==
    /\ pc = "done"
    /\ Names(calls) = <<"list", "outdated", "probe", "install", "upgrade">>
    /\ Exit0("upgrade")

\* C2: with a non-empty candidate list, an empty or cancelled selection ends
\* the run with the 'nothing selected' notification and no probe, install or
\* upgrade call is issued.
C2_NoSelectionStops ==
    (candidates # <<>> /\ picked # "no" /\ (picked = "cancelled" \/ selections = <<>>))
        => /\ pc = "done"
           /\ ~Running
           /\ LastNotification = Info("No packages selected for upgrade.")
           /\ ~Issued("probe") /\ ~Issued("install") /\ ~Issued("upgrade")

C2_Witness ==
    /\ Len(candidates) = 2
    /\ picked = "array"
    /\ selections = <<>>
    /\ zombies = {}

\* C3: a parsed payload with no package entry anywhere gives no candidate,
\* and the run ends with the 'no outdated packages' notification, with no
\* selection prompt and no further external call.
C3_NoEntriesNoPrompt ==
    (PayloadParsed /\ Occurrences(ParsedDocument) = {})
        => /\ candidates = <<>>
           /\ pc = "done"
           /\ ~Running
           /\ LastNotification = Info("No outdated packages found.")
           /\ prompts = 0
           /\ picked = "no"
           /\ Names(calls) = <<"list", "outdated">>

C3_Witness ==
    /\ PayloadParsed
    /\ "m0" \in Range(payload)
    /\ Occurrences(ParsedDocument) = {}
    /\ ProjectsIn(ParsedDocument) # <<>>

\* the fatal paths of a run
NoWorkspace == pc # "idle" /\ ~folder
FatalPath ==
    \/ NoWorkspace
    \/ Failed("list")
    \/ Failed("outdated")
    \/ Exit0("outdated") /\ pc # "outdated" /\ Trim(payload) = <<>>
    \/ Exit0("outdated") /\ Trim(payload) # <<>> /\ ~JsonParse(extractJsonPayload(payload)).ok
    \/ Failed("install")
    \/ Failed("upgrade")

\* C4 as claimed: every fatal path produces exactly one notification over
\* the whole run and at least one entry in the diagnostic log.
C4_Original ==
    FatalPath => Len(notifications) = 1 /\ Len(log) >= 1

\* C4 as amended: every fatal path ends the run with exactly one error
\* notification, the last one shown; without a workspace it is the only
\* notification and no log exists; on every other fatal path it follows the
\* one informational 'Running NuGet package checks...' notification and the
\* log has at least one entry.
C4_FatalNotifiedOnce ==
    FatalPath
        => /\ pc = "done"
           /\ ErrorCount = 1
           /\ LastNotification.kind = "error"
           /\ NoWorkspace => Len(notifications) = 1 /\ ~channel /\ log = <<>>
           /\ ~NoWorkspace
                 => /\ Len(notifications) = 2
                    /\ notifications[1] = Info("Running NuGet package checks...")
                    /\ channel
                    /\ Len(log) >= 1

C4_Witness ==
    /\ Failed("install")
    /\ pc = "done"
    /\ Len(notifications) = 2

\* C11: after an outdated-check call that exited 0 the payload is the
\* captured standard output when that is not blank and the captured standard
\* error otherwise; when both are blank the run ends with the 'no JSON
\* output' error, nothing is normalized and no further call is issued.
C11_PayloadFromStdoutElseStderr ==
    Exit0("outdated")
        => /\ Trim(stdout) # <<>> => payload = stdout
           /\ Trim(stdout) = <<>> => payload = stderr
           /\ (Trim(stdout) = <<>> /\ Trim(stderr) = <<>>)
                 => /\ pc = "done"
                    /\ ~Running
                    /\ LastNotification
                          = Error("No JSON output received from dotnet list package --outdated.")
                    /\ candidates = <<>>
                    /\ items = <<>>
                    /\ prompts = 0
                    /\ Names(calls) = <<"list", "outdated">>

C11_Witness ==
    /\ Exit0("outdated")
    /\ stdout = <<" ">>
    /\ payload = stderr
    /\ candidates # <<>>

\* the two payload errors of a run
BlankPayload == Exit0("outdated") /\ Trim(payload) = <<>>
ParseFailed ==
    /\ Exit0("outdated")
    /\ Trim(payload) # <<>>
    /\ ~JsonParse(extractJsonPayload(payload)).ok
RawLogged == \E i \in 1..Len(log) : log[i] = [kind |-> "raw", of |-> "outdated", text |-> payload]

\* C12 as claimed: on either payload error the raw payload is in the log by
\* the time the error notification is shown.
C12_Original ==
    (BlankPayload \/ ParseFailed)
        => /\ LastNotification.kind = "error"
           /\ RawLogged

\* C12 as amended: a payload that fails to parse is in the log, under its
\* heading, by the time the error notification is shown, and the message
\* carries the parse error's message; a blank payload is not logged: the
\* log ends with the line echoing the outdated-check command.  Either way
\* the run ends with no selection prompt and no further call.
C12_PayloadErrors ==
    /\ (BlankPayload \/ ParseFailed)
          => /\ pc = "done"
             /\ ~Running
             /\ prompts = 0
             /\ Names(calls) = <<"list", "outdated">>
             /\ LastNotification.kind = "error"
    /\ ParseFailed
          => /\ Len(log) >= 2
             /\ log[Len(log) - 1] = [kind |-> "line", line |-> "Failed to parse JSON. Raw output:"]
             /\ log[Len(log)] = [kind |-> "raw", of |-> "outdated", text |-> payload]
             /\ LastNotification
                   = Error("Failed to parse outdated package list: "
                               \o JsonParse(extractJsonPayload(payload)).message)
    /\ BlankPayload
          => /\ ~RawLogged
             /\ log[Len(log)] = [kind |-> "command", args |-> OutdatedArgs]
             /\ LastNotification
                   = Error("No JSON output received from dotnet list package --outdated.")

C12_Witness ==
    /\ ParseFailed
    /\ pc = "done"
    /\ stdout = <<" ">>
    /\ payload = <<"x", " ", "x">>

\* C13: the install call is issued exactly when the probe call exited
\* non-zero; a probe that exits 0 leads to the upgrade call with no install;
\* an install that exits non-zero ends the run with an error and no upgrade
\* call; an install that exits 0 leads to the upgrade call.
C13_EnsureStep ==
    /\ Issued("install") <=> Failed("probe")
    /\ Exit0("probe") => ~Issued("install") /\ Issued("upgrade")
    /\ Failed("install")
          => /\ pc = "done"
             /\ ~Issued("upgrade")
             /\ LastNotification
                   = Error("Failed to install dotnet-outdated-tool. See output for details.")
    /\ Exit0("install") => Issued("upgrade")

C13_Witness ==
    /\ Failed("probe")
    /\ Exit0("install")
    /\ calls[Len(calls)].name = "upgrade"
    /\ Running

\* the argument list of the upgrade call of the run
UpgradeCallArgs == calls[CHOOSE i \in 1..Len(calls) : calls[i].name = "upgrade"].args

\* C14: the upgrade call's arguments are "outdated", "--upgrade" and then one
\* pair "--include", label per selected item, in selection order, and
\* nothing else; a non-zero exit of the call ends the run with the upgrade
\* error, a zero exit with the success notification.
C14_UpgradeArguments ==
    /\ Issued("upgrade")
          => /\ Len(UpgradeCallArgs) = 2 + 2 * Len(selections)
             /\ SubSeq(UpgradeCallArgs, 1, 2) = <<"outdated", "--upgrade">>
             /\ \A i \in 1..Len(selections) :
                    /\ UpgradeCallArgs[2 * i + 1] = "--include"
                    /\ UpgradeCallArgs[2 * i + 2] = selections[i].label
             /\ \A i \in 1..Len(selections) :
                    \E j \in 1..Len(candidates) : candidates[j].id = selections[i].label
    /\ Failed("upgrade")
          => /\ pc = "done"
             /\ LastNotification
                   = Error("dotnet outdated --upgrade failed. See output for details.")
    /\ Exit0("upgrade")
          => /\ pc = "done"
             /\ LastNotification = Info("NuGet packages updated.")

C14_Witness ==
    /\ Exit0("upgrade")
    /\ Len(selections) = 2
    /\ UpgradeCallArgs = <<"outdated", "--upgrade", "--include", "Foo", "--include", "Bar">>

\* C15: without a workspace folder the run shows the precondition error and
\* ends: no external call is issued, and no output channel is created or
\* written.
C15_NoWorkspaceNoCalls ==
    NoWorkspace
        => /\ pc = "done"
           /\ notifications
                 = <<Error("Open a workspace folder to run NuGet Package Upgrade.")>>
           /\ calls = <<>>
           /\ ~Running
           /\ zombies = {}
           /\ \A name \in CallNames : ~results[name].settled
           /\ ~channel
           /\ log = <<>>

C15_Witness ==
    /\ NoWorkspace
    /\ pc = "done"
    /\ ErrorCount = 1
    /\ calls = <<>>

\* the calls of the run whose promise has not been resolved
InFlight == {i \in 1..Len(calls) : ~results[calls[i].name].settled}

\* C17: at most one call of a run is in flight: when a call is started every
\* earlier call has completed (by process exit or by failing to start), so
\* only the last call issued can be in flight; and while the selection
\* prompt is shown no call is in flight.
C17_OneCallInFlight ==
    /\ InFlight \subseteq {Len(calls)}
    /\ Running <=> InFlight # {}
    /\ Running => child.name = calls[Len(calls)].name
    /\ pc = "pick" <=> (prompts = 1 /\ picked = "no")
    /\ pc = "pick" => InFlight = {} /\ ~Running
    /\ prompts \in {0, 1}

C17_Witness ==
    /\ Len(calls) = 5
    /\ InFlight = {5}
    /\ child.name = "upgrade"
    /\ prompts = 1

\* the data entries of the log, and chunks as the log entries they make
LoggedData == SelectSeq(log, LAMBDA e : e.kind = "data")
AsLogged(cs) == [i \in 1..Len(cs) |-> [kind |-> "data", of |-> cs[i].of, text |-> cs[i].text]]

\* C18: no chunk of the outdated-check call's streams is appended to the
\* log: a step that captures a chunk leaves the log as it is, and until the
\* call completes the log ends with the line echoing its command; every
\* chunk of every other call's streams is appended to the log in the step
\* in which it arrives.
C18_CaptureSilentOthersEchoed ==
    /\ []( /\ LoggedData = AsLogged(arrived)
           /\ \A i \in 1..Len(log) : log[i].kind = "data" => log[i].of # "outdated"
           /\ (Running /\ child.name = "outdated")
                 => log[Len(log)] = [kind |-> "command", args |-> OutdatedArgs] )
    /\ [][ (stdout' # stdout \/ stderr' # stderr)
             => /\ child.name = "outdated"
                /\ log' = log ]_vars
    /\ [][ arrived' # arrived
             => LET c == arrived'[Len(arrived')]
                IN  /\ arrived' = Append(arrived, c)
                    /\ c.of = child.name
                    /\ c.of # "outdated"
                    /\ log' = Append(log, [kind |-> "data", of |-> c.of, text |-> c.text]) ]_vars

C18_Witness ==
    /\ Len(arrived) = 2
    /\ arrived[1].of = "list"
    /\ arrived[2].of = "upgrade"
    /\ Len(LoggedData) = 2
    /\ stdout # <<>>
    /\ stderr # <<>>

\* the events a call's child emitted, and the result its first event gives
EventsOf(name) == SelectSeq(events, LAMBDA e : e.of = name)
FailedToStart(name) == EventsOf(name) # <<>> /\ EventsOf(name)[1].event = "error"
ResultOf(e) ==
    IF e.event = "error" THEN 1
    ELSE IF e.code = NullCode THEN 1 ELSE e.code
StartFailureLine == [kind |-> "line", line |-> "Command failed to start: spawn error"]

\* C19 as claimed, in its last part: a call that fails to start completes
\* with exit status 1 and makes the run fatal: the run ends there with an
\* error notification.
C19_Original ==
    \A name \in CallNames :
        FailedToStart(name)
            => /\ results[name] = Settled(1)
               /\ pc = "done"
               /\ LastNotification.kind = "error"
               /\ calls[Len(calls)].name = name

\* C19 as amended: a call completes exactly once, with the result of the
\* first 'error' or 'close' event of its child: 1 for an 'error', which is
\* logged with its message, 1 for a 'close' with a null code, the code for
\* any other 'close'; a second event leaves the result as it was.  A call
\* other than the probe that fails to start ends the run with an error; a
\* probe that fails to start is followed by the install call.
C19_CompletesOnce ==
    /\ []( \A name \in CallNames :
               LET evs == EventsOf(name)
                   failedToStart == evs # <<>> /\ evs[1].event = "error"
               IN  /\ results[name].settled <=> evs # <<>>
                   /\ results[name].settled => results[name] = Settled(ResultOf(evs[1]))
                   /\ Len(evs) <= 2
                   /\ Len(evs) = 2 => evs[1].event = "error" /\ evs[2].event = "close"
                   /\ failedToStart => StartFailureLine \in Range(log)
                   /\ (failedToStart /\ name # "probe")
                         => /\ pc = "done"
                            /\ LastNotification.kind = "error"
                            /\ calls[Len(calls)].name = name
                   /\ (failedToStart /\ name = "probe") => Issued("install") )
    /\ [][ \A name \in CallNames :
               /\ results[name].settled => results'[name] = results[name]
               /\ (~results[name].settled /\ results'[name].settled)
                     => /\ Len(events') = Len(events) + 1
                        /\ events'[Len(events')].of = name
                        /\ events'[Len(events')].event = "error"
                              => /\ Len(log') > Len(log)
                                 /\ log'[Len(log) + 1] = StartFailureLine ]_vars

C19_Witness ==
    /\ FailedToStart("probe")
    /\ Len(EventsOf("probe")) = 2
    /\ \E i \in 1..Len(events) : events[i] = CloseEvent("install", NullCode)
    /\ Failed("install")
    /\ pc = "done"

\* the notifications that end a run
FinalMessages ==
    {"Open a workspace folder to run NuGet Package Upgrade.",
     "dotnet list package failed. See output for details.",
     "dotnet list package --outdated --format json failed. Update your .NET SDK or see output for details.",
     "No JSON output received from dotnet list package --outdated.",
     "Failed to parse outdated package list: Unexpected token in JSON",
     "No outdated packages found.",
     "No packages selected for upgrade.",
     "Failed to install dotnet-outdated-tool. See output for details.",
     "dotnet outdated --upgrade failed. See output for details.",
     "NuGet packages updated."}
Terminal ==
    /\ pc = "done"
    /\ ~Running
    /\ notifications # <<>>
    /\ LastNotification.message \in FinalMessages

\* C20: when every started process emits 'close' or 'error' and the prompt
\* returns, a run that has started reaches a terminal state with a final
\* notification; and each of the five calls is issued at most once.
C20_TerminatesWithoutRetry ==
    /\ [](\A name \in CallNames :
              Cardinality({i \in 1..Len(calls) : calls[i].name = name}) <= 1)
    /\ [](pc = "done" => Terminal)
    /\ (pc # "idle") ~> Terminal

C20_Witness ==
    /\ Terminal
    /\ Failed("upgrade")
    /\ Names(calls) = <<"list", "outdated", "probe", "upgrade">>

(***************************************************************************)
(* The aggregation and the picker items.                                   *)
(***************************************************************************)
\* C5: the candidates hold exactly one candidate per distinct id (exact
\* string match) of a usable package entry: no id twice, none missing,
\* none invented.
C5_OneCandidatePerId ==
    stage = "normalized"
        => /\ \A i, j \in 1..Len(candidates) :
                  candidates[i].id = candidates[j].id => i = j
           /\ {candidates[i].id : i \in 1..Len(candidates)}
                  = {IdOf(EntryAt(data, o)) : o \in UsableOccurrences(data)}

C5_Witness ==
    /\ stage = "normalized"
    /\ Len(candidates) = 1
    /\ Cardinality(UsableOccurrences(data)) = 2

\* two usable entries of one id, the only ones, under two frameworks
TwoUnderFrameworks(o1, o2) ==
    /\ o1 # o2
    /\ IdOf(EntryAt(data, o1)) = IdOf(EntryAt(data, o2))
    /\ OccurrencesOf(data, IdOf(EntryAt(data, o1))) = {o1, o2}
    /\ <<o1[1], o1[2]>> # <<o2[1], o2[2]>>

\* C6 as claimed: an id that occurs in two entries under two different
\* frameworks (here: frameworks whose names differ) has a single candidate
\* whose contexts set has two entries.
C6_Original ==
    stage = "normalized"
        => \A o1, o2 \in UsableOccurrences(data) :
               (TwoUnderFrameworks(o1, o2)
                    /\ ~SameJson(FrameworkNameAt(data, o1), FrameworkNameAt(data, o2)))
                   => /\ Cardinality(CandidatesOf(IdOf(EntryAt(data, o1)))) = 1
                      /\ Len(Candidate(IdOf(EntryAt(data, o1))).contexts) = 2

\* C6 as amended: such an id has a single candidate; its contexts set has
\* two entries when the two composed strings "<project> (<framework>)"
\* differ, and one entry when they are the same string.
C6_MergedContexts ==
    stage = "normalized"
        => \A o1, o2 \in UsableOccurrences(data) :
               TwoUnderFrameworks(o1, o2)
                   => LET id == IdOf(EntryAt(data, o1))
                      IN  /\ Cardinality(CandidatesOf(id)) = 1
                          /\ IsInjective(Candidate(id).contexts)
                          /\ Len(Candidate(id).contexts)
                                 = IF ContextAt(data, o1) = ContextAt(data, o2) THEN 1 ELSE 2

C6_Witness ==
    /\ stage = "normalized"
    /\ \E o1, o2 \in UsableOccurrences(data) :
           /\ TwoUnderFrameworks(o1, o2)
           /\ o1[1] # o2[1]
           /\ Len(Candidate(IdOf(EntryAt(data, o1))).contexts) = 2

\* the values an id's entries contribute to its candidate's sets
VersionsOf(d, os, field) ==
    {Get(EntryAt(d, o), field).s :
        o \in {q \in os : NonEmptyString(Get(EntryAt(d, q), field))}}
ContextsOf(d, os) == {ContextAt(d, o) : o \in os}

\* C16 as claimed: every string value of an entry's resolved (latest)
\* version is in the resolvedVersions (latestVersions) set of the entry's
\* candidate.
C16_Original ==
    stage = "normalized"
        => \A o \in UsableOccurrences(data) :
               LET e == EntryAt(data, o)
                   c == Candidate(IdOf(e))
               IN  /\ IsString(Get(e, "resolvedVersion"))
                         => Get(e, "resolvedVersion").s \in Range(c.resolvedVersions)
                   /\ IsString(Get(e, "latestVersion"))
                         => Get(e, "latestVersion").s \in Range(c.latestVersions)

\* C16 as amended: for every id of a usable entry, the candidate's
\* resolvedVersions (latestVersions) are exactly the non-empty string values
\* of the resolved (latest) version of the id's entries, an empty string
\* being left out, and its contexts are exactly the context strings of the
\* id's entries, with or without versions.
C16_SetsFromEntries ==
    stage = "normalized"
        => LET usable == UsableOccurrences(data)
           IN  /\ \A o \in usable : CandidatesOf(IdOf(EntryAt(data, o))) # {}
               /\ \A i \in 1..Len(candidates) :
                      LET c == candidates[i]
                          entries == {o \in usable : IdOf(EntryAt(data, o)) = c.id}
                      IN  /\ IsInjective(c.resolvedVersions)
                          /\ IsInjective(c.latestVersions)
                          /\ Range(c.resolvedVersions) = VersionsOf(data, entries, "resolvedVersion")
                          /\ Range(c.latestVersions) = VersionsOf(data, entries, "latestVersion")
                          /\ Range(c.contexts) = ContextsOf(data, entries)
                          /\ "" \notin Range(c.resolvedVersions) \cup Range(c.latestVersions)

C16_Witness ==
    /\ stage = "normalized"
    /\ \E o \in UsableOccurrences(data) :
           /\ Get(EntryAt(data, o), "resolvedVersion") = Str("")
           /\ Candidate("foo").resolvedVersions = <<>>
           /\ Candidate("foo").latestVersions = <<"4.0">>
    /\ \E o \in UsableOccurrences(data) :
           /\ Get(EntryAt(data, o), "resolvedVersion") = Null
           /\ ContextAt(data, o) \in Range(Candidate("Bar").contexts)

\* the documents that list the same occurrences with two neighbours swapped:
\* two projects, two frameworks of a project, or two entries of a framework
SwapAt(s, i) == [s EXCEPT ![i] = s[i + 1], ![i + 1] = s[i]]
WithProjects(d, pl) == Obj([d.o EXCEPT !["projects"] = Arr(pl)])
WithFrameworks(d, i, fl) ==
    WithProjects(d, [ProjectsIn(d) EXCEPT
                         ![i] = Obj([@.o EXCEPT !["frameworks"] = Arr(fl)])])
WithPackages(d, i, j, pk) ==
    WithFrameworks(d, i, [FrameworksIn(d, i) EXCEPT
                              ![j] = Obj([@.o EXCEPT !["topLevelPackages"] = Arr(pk)])])
Reorderings(d) ==
    {WithProjects(d, SwapAt(ProjectsIn(d), i)) : i \in 1..(Len(ProjectsIn(d)) - 1)}
    \cup UNION {{WithFrameworks(d, i, SwapAt(FrameworksIn(d, i), j)) :
                    j \in 1..(Len(FrameworksIn(d, i)) - 1)} :
                i \in 1..Len(ProjectsIn(d))}
    \cup UNION {UNION {{WithPackages(d, i, j, SwapAt(PackagesIn(d, i, j), k)) :
                           k \in 1..(Len(PackagesIn(d, i, j)) - 1)} :
                       j \in 1..Len(FrameworksIn(d, i))} :
                i \in 1..Len(ProjectsIn(d))}

AsSets(c) ==
    [id |-> c.id,
     resolvedVersions |-> Range(c.resolvedVersions),
     latestVersions |-> Range(c.latestVersions),
     contexts |-> Range(c.contexts)]
SameCandidates(a, b) == {AsSets(a[i]) : i \in 1..Len(a)} = {AsSets(b[i]) : i \in 1..Len(b)}
SortedById(c) == \A i, j \in 1..Len(c) : i < j => localeCompare(c[i].id, c[j].id) <= 0

\* C7: listing the same occurrences in another order gives the same ids with
\* the same three sets, and either output is sorted ascending by id.
C7_OrderIndependent ==
    stage = "normalized"
        => /\ SortedById(candidates)
           /\ \A d \in Reorderings(data) :
                  LET reordered == NormalizeData(d)
                  IN  /\ SortedById(reordered)
                      /\ SameCandidates(candidates, reordered)

C7_Witness ==
    /\ stage = "normalized"
    /\ Len(candidates) = 2
    /\ \E d \in Reorderings(data) :
           VisitProjects(<<>>, ProjectsIn(d), 1) # VisitProjects(<<>>, ProjectsIn(data), 1)

\* C8: an item's description is "<resolved> -> <latest>" exactly when both
\* version sets have one element, and "multiple versions" otherwise.
OnlyElement(S) == CHOOSE x \in S : TRUE
C8_Description ==
    (stage = "normalized" /\ candidates # <<>>)
        => /\ Len(items) = Len(candidates)
           /\ \A i \in 1..Len(candidates) :
                  LET r == Range(candidates[i].resolvedVersions)
                      l == Range(candidates[i].latestVersions)
                  IN  /\ items[i].label = candidates[i].id
                      /\ items[i].description
                             = IF Cardinality(r) = 1 /\ Cardinality(l) = 1
                               THEN OnlyElement(r) \o " -> " \o OnlyElement(l)
                               ELSE "multiple versions"

C8_Witness ==
    /\ stage = "normalized"
    /\ \E i \in 1..Len(candidates) :
           /\ Len(candidates[i].resolvedVersions) = 2
           /\ Len(candidates[i].latestVersions) = 1
           /\ items[i].description = "multiple versions"

(***************************************************************************)
(* The payload extraction.                                                 *)
(***************************************************************************)
\* C9: extracting from an extracted payload changes nothing.
C9_Idempotent ==
    Len(extracted) = 2 => extracted[2] = extracted[1]

C9_Witness ==
    /\ Len(extracted) = 2
    /\ extracted[1] # text
    /\ Len(extracted[1]) >= 3

Positions(s, c) == {i \in 1..Len(s) : s[i] = c}
Least(S) == CHOOSE x \in S : \A y \in S : x <= y
Greatest(S) == CHOOSE x \in S : \A y \in S : y <= x

\* C10: the input comes back unchanged when it has no "{", no "}", or its
\* last "}" is not after its first "{"; otherwise the result is the input
\* from its first "{" to its last "}", both included.
C10_ExtractsBraceSpan ==
    Len(extracted) >= 1
        => LET opens == Positions(text, "{")
               closes == Positions(text, "}")
               out == extracted[1]
           IN  IF opens = {} \/ closes = {} \/ Greatest(closes) <= Least(opens)
               THEN out = text
               ELSE /\ out = SubSeq(text, Least(opens), Greatest(closes))
                    /\ out[1] = "{"
                    /\ out[Len(out)] = "}"

C10_Witness ==
    /\ Len(extracted) = 1
    /\ Len(text) = 4
    /\ text[1] # "{"
    /\ text[Len(text)] # "}"
    /\ extracted[1] = <<"{", "}">>

====
